---------------------------- MODULE Spec2Model ----------------------------
(***************************************************************************)
(* Model of prompt_recovery_with_gemma_burst.py: a top-to-bottom script    *)
(* that loads a CSV of (original_text, rewritten_text, rewrite_prompt)     *)
(* rows, formats each row with a fixed template, loads a pretrained        *)
(* causal LM, tokenizes the corpus, enables LoRA, compiles, fits and saves *)
(* one checkpoint.  The commented-out submission cells (lines 237-290) are *)
(* modelled as a second specification, SpecSubmission.                     *)
(*                                                                         *)
(* Text is modelled by TLA+ strings, character for character (TLC          *)
(* evaluates Len, \o and SubSeq on strings).  A TLA+ string cannot hold    *)
(* the backquote character, so the backquotes of the instruction paragraph *)
(* of the template are written as apostrophes; nothing else is changed.    *)
(* A DataFrame cell is <<s>> for the string s and <<>> for NaN (null).     *)
(* A Python name that is not bound yet holds <<>>, and <<v>> once it is     *)
(* bound to v (CFG, df, data, test_df, submission).                        *)
(***************************************************************************)
EXTENDS Integers, Sequences, FiniteSets, TLC

VARIABLES
    pc,           \* the statement of the script that runs next
    CFG,          \* the configuration object (line 18)
    df,           \* the rows pd.read_csv returned (line 39)
    df_prompt,    \* the "prompt" column as progress_apply builds it (66-68)
    data,         \* df.prompt.tolist() (line 69)
    loaded,       \* gemma_lm exists (line 94)
    seq_len,      \* gemma_lm.preprocessor.sequence_length, 0 before the load
    x_seq_len,    \* sequence length of x, y, sample_weight (line 100), 0 before
    lora_rank,    \* rank of the enabled LoRA (line 164), 0 while disabled
    compiled,     \* gemma_lm.compile has run (176-180)
    epochs_done,  \* epochs fit has completed (line 183)
    fit_seq_lens, \* sequence lengths fit has tokenized batches with
    checkpoints,  \* paths gemma_lm.save has written, in order (line 186)
    error,        \* the statement whose call raised, "" while none has
    spc,          \* position in the disabled submission cells (237-290)
    test_df,      \* rows of test.csv after fillna (237-239)
    sub_prompts,  \* the prompts the submission loop has built (272-276)
    preds,        \* [id, pred] pairs collected by the loop (line 283)
    submission    \* rows written to submission.csv (line 290), <<>> before

runVars == <<pc, CFG, df, df_prompt, data, loaded, seq_len, x_seq_len,
             lora_rank, compiled, epochs_done, fit_seq_lens, checkpoints, error>>

subVars == <<spc, test_df, sub_prompts, preds, submission>>

vars == <<pc, CFG, df, df_prompt, data, loaded, seq_len, x_seq_len,
          lora_rank, compiled, epochs_done, fit_seq_lens, checkpoints, error,
          spc, test_df, sub_prompts, preds, submission>>

---------------------------------------------------------------------------
(* Bounds of the model.                                                    *)

MaxRows == 2

MaxEpochs == 2

MaxTestRows == 2

---------------------------------------------------------------------------
(* Strings.                                                                *)

NaN == <<>>

Some(s) == <<s>>

\* str(value) as str.format renders a cell: a float NaN prints as "nan".
Str(cell) == IF cell = NaN THEN "nan" ELSE cell[1]

StartsWithAt(s, sub, i) ==
    /\ i >= 1
    /\ i + Len(sub) - 1 <= Len(s)
    /\ SubSeq(s, i, i + Len(sub) - 1) = sub

EndsWith(s, sub) == StartsWithAt(s, sub, Len(s) - Len(sub) + 1)

\* str.find(sub, start) with 1-based positions; 0 when there is none.
Find(s, sub, start) ==
    LET hits == {i \in start..(Len(s) - Len(sub) + 1) : StartsWithAt(s, sub, i)}
    IN  IF hits = {} THEN 0 ELSE CHOOSE i \in hits : \A j \in hits : i <= j

Contains(s, sub) == Find(s, sub, 1) # 0

\* str.rfind(ch) for a single character, 1-based; 0 when there is none.
RFind(s, ch) ==
    LET hits == {i \in 1..Len(s) : SubSeq(s, i, i) = ch}
    IN  IF hits = {} THEN 0 ELSE CHOOSE i \in hits : \A j \in hits : j <= i

RECURSIVE Replace(_, _, _)
\* str.replace(old, new) for a non-empty old: every non-overlapping
\* occurrence, left to right.
Replace(s, old, new) ==
    LET p == Find(s, old, 1)
    IN  IF p = 0 THEN s
        ELSE SubSeq(s, 1, p - 1) \o new
             \o Replace(SubSeq(s, p + Len(old), Len(s)), old, new)

Digit(d) ==
    CASE d = 0 -> "0" [] d = 1 -> "1" [] d = 2 -> "2" [] d = 3 -> "3"
      [] d = 4 -> "4" [] d = 5 -> "5" [] d = 6 -> "6" [] d = 7 -> "7"
      [] d = 8 -> "8" [] d = 9 -> "9"

RECURSIVE IntToStr(_)
\* The f-string rendering of a non-negative int.
IntToStr(n) == IF n < 10 THEN Digit(n) ELSE IntToStr(n \div 10) \o Digit(n % 10)

\* os.path.splitext(p)[0]: cut at the last dot of the last path component,
\* unless that component has only leading dots before it.
SplitExtRoot(p) ==
    LET sepIndex == RFind(p, "/")
        dotIndex == RFind(p, ".")
    IN  IF /\ dotIndex > sepIndex
           /\ \E k \in (sepIndex + 1)..(dotIndex - 1) : SubSeq(p, k, k) # "."
        THEN SubSeq(p, 1, dotIndex - 1)
        ELSE p

\* os.path.join(a, b) on POSIX.
PathJoin(a, b) ==
    IF StartsWithAt(b, "/", 1) THEN b
    ELSE IF a = "" \/ EndsWith(a, "/") THEN a \o b
    ELSE a \o "/" \o b

---------------------------------------------------------------------------
(* The prompt template (line 62) and str.format.                           *)

Lit(s) == [kind |-> "lit", text |-> s]

Field(f) == [kind |-> "field", text |-> f]

InstructionText ==
    "Instruction:\nBelow, the 'Original Text' passage has been rewritten/transformed/improved into 'Rewritten Text' by the 'Gemma 7b-it' LLM with a certain prompt/instruction. Your task is to carefully analyze the differences between the 'Original Text' and 'Rewritten Text', and try to infer the specific prompt or instruction that was likely given to the LLM to rewrite/transform/improve the text in this way."

\* The template as str.format parses it: literal text and replacement fields.
template ==
    << Lit(InstructionText \o "\n\nOriginal Text:\n"),
       Field("original_text"),
       Lit("\n\nRewriten Text:\n"),
       Field("rewritten_text"),
       Lit("\n\nResponse:\n"),
       Field("rewrite_prompt") >>

RECURSIVE FormatSegments(_, _)
FormatSegments(segs, kw) ==
    IF segs = <<>> THEN ""
    ELSE (IF Head(segs).kind = "lit" THEN Head(segs).text
          ELSE Str(kw[Head(segs).text]))
         \o FormatSegments(Tail(segs), kw)

\* A formatter that substitutes the fields one after another in the text, so
\* that a value holding "{rewrite_prompt}" is expanded again.
FormatByReplace(original_text, rewritten_text, rewrite_prompt) ==
    Replace(
      Replace(
        Replace(InstructionText
                  \o "\n\nOriginal Text:\n{original_text}"
                  \o "\n\nRewriten Text:\n{rewritten_text}"
                  \o "\n\nResponse:\n{rewrite_prompt}",
                "{original_text}", Str(original_text)),
        "{rewritten_text}", Str(rewritten_text)),
      "{rewrite_prompt}", Str(rewrite_prompt))

\* A formatter with hidden state: its output depends on how many rows were
\* formatted before.
FormatCounting(original_text, rewritten_text, rewrite_prompt) ==
    FormatSegments(template,
        [original_text |-> original_text, rewritten_text |-> rewritten_text,
         rewrite_prompt |-> rewrite_prompt])
    \o (IF Len(df_prompt) > 0 THEN "\n" ELSE "")

\* template.format(original_text=..., rewritten_text=..., rewrite_prompt=...)
Format(original_text, rewritten_text, rewrite_prompt) ==
    FormatSegments(template,
        [original_text |-> original_text, rewritten_text |-> rewritten_text,
         rewrite_prompt |-> rewrite_prompt])

---------------------------------------------------------------------------
(* Configuration and input data.                                           *)

Unbound == <<>>

Bound(name) == name # <<>>

Val(name) == name[1]

\* rank passed to enable_lora
LoraRank == 4

Presets == {"gemma_2b", "gemma_2b_en"}

InputFileNames == {"train.csv", "train.tsv", "en_train.csv"}

SequenceLengths == {256, 512}

\* The sequence length a preset's preprocessor comes with.
PresetSequenceLengths == {512, 1024}

\* The values CFG can hold: the fields the script reads.
Configs ==
    [ preset : Presets,
      input_file_name : InputFileNames,
      dataset_path : {"/kaggle/working"},
      epochs : 1..MaxEpochs,
      sequence_length : SequenceLengths ]

Row(ot, rt, rp) == [original_text |-> ot, rewritten_text |-> rt, rewrite_prompt |-> rp]

\* Rows pd.read_csv can return: a cell is a non-empty string or NaN (an empty
\* CSV field is read as NaN).  Values may hold label text and braces.
CsvRows ==
    { Row(Some("cat"), Some("feline"), Some("make it formal")),
      Row(Some("cat"), NaN, Some("shorten")),
      Row(Some("Response:\n{rewrite_prompt}"), Some("Rewriten Text:\ncat"),
          Some("Original Text:")) }

RECURSIVE SeqsUpTo(_, _)
\* The sequences over S of length at most n.
SeqsUpTo(S, n) ==
    IF n = 0 THEN {<<>>}
    ELSE LET shorter == SeqsUpTo(S, n - 1)
         IN  shorter \cup {Append(q, e) : q \in {t \in shorter : Len(t) = n - 1}, e \in S}

---------------------------------------------------------------------------
(* The script, statement by statement.                                     *)

\* The script with enable_lora moved below compile.
StageAfterLoraLate(stage) ==
    CASE stage = "config"       -> "read_csv"
      [] stage = "read_csv"     -> "template"
      [] stage = "template"     -> "to_list"
      [] stage = "to_list"      -> "load_model"
      [] stage = "load_model"   -> "preprocess"
      [] stage = "preprocess"   -> "set_seq_len"
      [] stage = "set_seq_len"  -> "compile"
      [] stage = "compile"      -> "enable_lora"
      [] stage = "enable_lora"  -> "fit"
      [] stage = "fit"          -> "save"
      [] stage = "save"         -> "done"

\* The statement that follows each statement of the executed script.
StageAfter(stage) ==
    CASE stage = "config"       -> "read_csv"
      [] stage = "read_csv"     -> "template"
      [] stage = "template"     -> "to_list"
      [] stage = "to_list"      -> "load_model"
      [] stage = "load_model"   -> "preprocess"
      [] stage = "preprocess"   -> "enable_lora"
      [] stage = "enable_lora"  -> "set_seq_len"
      [] stage = "set_seq_len"  -> "compile"
      [] stage = "compile"      -> "fit"
      [] stage = "fit"          -> "save"
      [] stage = "save"         -> "done"

\* The statements that call into a library and can raise.
Failable == {"config", "read_csv", "template", "load_model", "preprocess",
             "enable_lora", "compile", "fit"}

\* 'finetune_{CFG.preset}_{base_filename}_epoch{CFG.epochs}.keras' without
\* the epoch count.
CheckpointNameNoEpoch(cfg) ==
    "finetune_" \o cfg.preset \o "_" \o SplitExtRoot(cfg.input_file_name) \o ".keras"

\* f'finetune_{CFG.preset}_{base_filename}_epoch{CFG.epochs}.keras'
CheckpointName(cfg) ==
    "finetune_" \o cfg.preset \o "_" \o SplitExtRoot(cfg.input_file_name)
    \o "_epoch" \o IntToStr(cfg.epochs) \o ".keras"

CheckpointPath(cfg) == PathJoin(cfg.dataset_path, CheckpointName(cfg))

Init ==
    /\ pc = "config"
    /\ CFG = Unbound
    /\ df = Unbound
    /\ df_prompt = <<>>
    /\ data = Unbound
    /\ loaded = FALSE
    /\ seq_len = 0
    /\ x_seq_len = 0
    /\ lora_rank = 0
    /\ compiled = FALSE
    /\ epochs_done = 0
    /\ fit_seq_lens = {}
    /\ checkpoints = <<>>
    /\ error = ""
    /\ spc = "off"
    /\ test_df = Unbound
    /\ sub_prompts = <<>>
    /\ preds = <<>>
    /\ submission = Unbound

\* from configurations.cfg import CFG; keras.utils.set_random_seed(CFG.seed)
LoadConfig ==
    /\ pc = "config"
    /\ \E cfg \in Configs : CFG' = <<cfg>>
    /\ pc' = StageAfter(pc)
    /\ UNCHANGED <<df, df_prompt, data, loaded, seq_len, x_seq_len, lora_rank,
                   compiled, epochs_done, fit_seq_lens, checkpoints, error>>
    /\ UNCHANGED subVars

\* df = pd.read_csv(CFG.input_dataset_path)
ReadCsv ==
    /\ pc = "read_csv"
    /\ \E rows \in SeqsUpTo(CsvRows, MaxRows) : df' = <<rows>>
    /\ pc' = StageAfter(pc)
    /\ UNCHANGED <<CFG, df_prompt, data, loaded, seq_len, x_seq_len, lora_rank,
                   compiled, epochs_done, fit_seq_lens, checkpoints, error>>
    /\ UNCHANGED subVars

\* One call of the lambda of progress_apply, on the next row in row order.
ApplyRow ==
    /\ pc = "template"
    /\ Len(df_prompt) < Len(Val(df))
    /\ LET row == Val(df)[Len(df_prompt) + 1]
       IN  df_prompt' = Append(df_prompt,
               Format(row.original_text, row.rewritten_text, row.rewrite_prompt))
    /\ UNCHANGED <<pc, CFG, df, data, loaded, seq_len, x_seq_len, lora_rank,
                   compiled, epochs_done, fit_seq_lens, checkpoints, error>>
    /\ UNCHANGED subVars

\* progress_apply returns and df["prompt"] is assigned.
ApplyDone ==
    /\ pc = "template"
    /\ Len(df_prompt) = Len(Val(df))
    /\ pc' = StageAfter(pc)
    /\ UNCHANGED <<CFG, df, df_prompt, data, loaded, seq_len, x_seq_len, lora_rank,
                   compiled, epochs_done, fit_seq_lens, checkpoints, error>>
    /\ UNCHANGED subVars

RECURSIVE DropDuplicates(_)
DropDuplicates(list) ==
    IF list = <<>> THEN <<>>
    ELSE LET front == DropDuplicates(SubSeq(list, 1, Len(list) - 1))
             last  == list[Len(list)]
         IN  IF \E i \in 1..Len(front) : front[i] = last THEN front
             ELSE Append(front, last)

\* A tolist that drops repeated examples.
ColumnToListUnique(column) == DropDuplicates(column)

\* df.prompt.tolist()
ColumnToList(column) == column

\* data = df.prompt.tolist()
ToList ==
    /\ pc = "to_list"
    /\ data' = <<ColumnToList(df_prompt)>>
    /\ pc' = StageAfter(pc)
    /\ UNCHANGED <<CFG, df, df_prompt, loaded, seq_len, x_seq_len, lora_rank,
                   compiled, epochs_done, fit_seq_lens, checkpoints, error>>
    /\ UNCHANGED subVars

\* gemma_lm = keras_nlp.models.GemmaCausalLM.from_preset(CFG.preset)
LoadModel ==
    /\ pc = "load_model"
    /\ loaded' = TRUE
    /\ \E n \in PresetSequenceLengths : seq_len' = n
    /\ pc' = StageAfter(pc)
    /\ UNCHANGED <<CFG, df, df_prompt, data, x_seq_len, lora_rank,
                   compiled, epochs_done, fit_seq_lens, checkpoints, error>>
    /\ UNCHANGED subVars

\* x, y, sample_weight = gemma_lm.preprocessor(data)
Preprocess ==
    /\ pc = "preprocess"
    /\ x_seq_len' = seq_len
    /\ pc' = StageAfter(pc)
    /\ UNCHANGED <<CFG, df, df_prompt, data, loaded, seq_len, lora_rank,
                   compiled, epochs_done, fit_seq_lens, checkpoints, error>>
    /\ UNCHANGED subVars

\* gemma_lm.backbone.enable_lora(rank=4)
EnableLora ==
    /\ pc = "enable_lora"
    /\ lora_rank' = LoraRank
    /\ pc' = StageAfter(pc)
    /\ UNCHANGED <<CFG, df, df_prompt, data, loaded, seq_len, x_seq_len,
                   compiled, epochs_done, fit_seq_lens, checkpoints, error>>
    /\ UNCHANGED subVars

\* The assignment of line 173 left out.
SequenceLengthKept(cfg) == seq_len

\* The value line 173 assigns: CFG.sequence_length
SequenceLengthSet(cfg) == cfg.sequence_length

\* gemma_lm.preprocessor.sequence_length = CFG.sequence_length
SetSequenceLength ==
    /\ pc = "set_seq_len"
    /\ seq_len' = SequenceLengthSet(Val(CFG))
    /\ pc' = StageAfter(pc)
    /\ UNCHANGED <<CFG, df, df_prompt, data, loaded, x_seq_len, lora_rank,
                   compiled, epochs_done, fit_seq_lens, checkpoints, error>>
    /\ UNCHANGED subVars

\* gemma_lm.compile(loss=..., optimizer=..., weighted_metrics=...)
Compile ==
    /\ pc = "compile"
    /\ compiled' = TRUE
    /\ pc' = StageAfter(pc)
    /\ UNCHANGED <<CFG, df, df_prompt, data, loaded, seq_len, x_seq_len, lora_rank,
                   epochs_done, fit_seq_lens, checkpoints, error>>
    /\ UNCHANGED subVars

\* An epoch of fit with a checkpoint callback: a checkpoint is written at the
\* end of every epoch.
CheckpointsAfterEpochSaving(paths) == Append(paths, CheckpointPath(Val(CFG)))

\* What an epoch of fit does to the files written: nothing.
CheckpointsAfterEpoch(paths) == paths

\* One epoch of gemma_lm.fit(data, epochs=CFG.epochs, batch_size=CFG.batch_size):
\* the corpus is tokenized with the preprocessor's current sequence length.
FitEpoch ==
    /\ pc = "fit"
    /\ epochs_done < Val(CFG).epochs
    /\ epochs_done' = epochs_done + 1
    /\ fit_seq_lens' = fit_seq_lens \cup {seq_len}
    /\ checkpoints' = CheckpointsAfterEpoch(checkpoints)
    /\ UNCHANGED <<pc, CFG, df, df_prompt, data, loaded, seq_len, x_seq_len,
                   lora_rank, compiled, error>>
    /\ UNCHANGED subVars

\* fit returns after the configured number of epochs.
FitDone ==
    /\ pc = "fit"
    /\ epochs_done = Val(CFG).epochs
    /\ pc' = StageAfter(pc)
    /\ UNCHANGED <<CFG, df, df_prompt, data, loaded, seq_len, x_seq_len, lora_rank,
                   compiled, epochs_done, fit_seq_lens, checkpoints, error>>
    /\ UNCHANGED subVars

\* base_filename, _ = os.path.splitext(CFG.input_file_name); gemma_lm.save(...)
Save ==
    /\ pc = "save"
    /\ checkpoints' = Append(checkpoints, CheckpointPath(Val(CFG)))
    /\ pc' = StageAfter(pc)
    /\ UNCHANGED <<CFG, df, df_prompt, data, loaded, seq_len, x_seq_len, lora_rank,
                   compiled, epochs_done, fit_seq_lens, error>>
    /\ UNCHANGED subVars

\* An exception that is swallowed: the script goes on with the next statement.
StageAfterFailureContinue(stage) == StageAfter(stage)

\* No try/except anywhere: an exception ends the process.
StageAfterFailure(stage) == "failed"

\* A library call of a stage before the save raises.
Fail ==
    /\ pc \in Failable
    /\ error' = pc
    /\ pc' = StageAfterFailure(pc)
    /\ UNCHANGED <<CFG, df, df_prompt, data, loaded, seq_len, x_seq_len, lora_rank,
                   compiled, epochs_done, fit_seq_lens, checkpoints>>
    /\ UNCHANGED subVars

Next ==
    \/ LoadConfig
    \/ ReadCsv
    \/ ApplyRow
    \/ ApplyDone
    \/ ToList
    \/ LoadModel
    \/ Preprocess
    \/ EnableLora
    \/ SetSequenceLength
    \/ Compile
    \/ FitEpoch
    \/ FitDone
    \/ Save
    \/ Fail

Spec == Init /\ [][Next]_vars

---------------------------------------------------------------------------
(* The disabled submission cells (lines 237-290), as they would run after  *)
(* the fine-tuning if they were enabled.                                   *)

\* max_length passed to generate
GenerateMaxLength == 512

TestRow(id, ot, rt) == [id |-> id, original_text |-> ot, rewritten_text |-> rt]

\* Rows pd.read_csv can return for test.csv.
TestCsvRows ==
    { TestRow("r1", Some("cat"), Some("feline")),
      TestRow("r2", NaN, Some("Response:\n")),
      TestRow("r3", Some("The quick brown fox jumps over the lazy dog again and again."),
              Some("{rewrite_prompt}")) }

\* Continuations the fine-tuned model may generate after the prompt.
Completions == {"", " ", "Make it formal."}

\* Series.fillna(value) on one cell.
FillNa(cell, value) == IF cell = NaN THEN Some(value) ELSE cell

\* test_df['original_text'].fillna(""), test_df['rewritten_text'].fillna("")
FillTestRow(row) ==
    [id |-> row.id,
     original_text |-> FillNa(row.original_text, ""),
     rewritten_text |-> FillNa(row.rewritten_text, "")]

\* A prompt built from the row's own (missing) rewrite_prompt.
InferencePromptFromRow(row) == Format(row.original_text, row.rewritten_text, NaN)

\* template.format(original_text=..., rewritten_text=..., rewrite_prompt="")
InferencePrompt(row) == Format(row.original_text, row.rewritten_text, Some(""))

\* gemma_lm.generate(prompt, max_length=512): the prompt followed by the
\* continuation, cut at max_length (one token is modelled as one character).
Generate(prompt, completion) ==
    LET full == prompt \o completion
    IN  IF Len(full) <= GenerateMaxLength THEN full
        ELSE SubSeq(full, 1, GenerateMaxLength)

\* A map that leaves every prediction as it is.
DefaultIfEmptyMissing(x) == x

\* lambda x: "Improve the essay" if len(x) == 0 else x
DefaultIfEmpty(x) == IF Len(x) = 0 THEN "Improve the essay" ELSE x

\* Lines 287-289 on one collected pair.
SubmissionRow(pair) ==
    [id |-> pair.id,
     rewrite_prompt |-> DefaultIfEmpty(FillNa(Some(pair.pred), "")[1])]

\* The state in which the script's last executed statement has returned.
InitSubmission ==
    LET cfg == [preset |-> "gemma_2b_en", input_file_name |-> "train.csv",
                dataset_path |-> "/kaggle/working", epochs |-> 1,
                sequence_length |-> 512]
        rows == << Row(Some("cat"), Some("feline"), Some("make it formal")) >>
        prompts == << Format(Some("cat"), Some("feline"), Some("make it formal")) >>
    IN  /\ pc = "done"
        /\ CFG = <<cfg>>
        /\ df = <<rows>>
        /\ df_prompt = prompts
        /\ data = <<prompts>>
        /\ loaded = TRUE
        /\ seq_len = 512
        /\ x_seq_len = 1024
        /\ lora_rank = LoraRank
        /\ compiled = TRUE
        /\ epochs_done = 1
        /\ fit_seq_lens = {512}
        /\ checkpoints = <<CheckpointPath(cfg)>>
        /\ error = ""
        /\ spc = "read_test"
        /\ test_df = Unbound
        /\ sub_prompts = <<>>
        /\ preds = <<>>
        /\ submission = Unbound

\* test_df = pd.read_csv(...); the two fillna("") of lines 238-239
ReadTestCsv ==
    /\ spc = "read_test"
    /\ \E rows \in SeqsUpTo(TestCsvRows, MaxTestRows) :
          test_df' = << [i \in 1..Len(rows) |-> FillTestRow(rows[i])] >>
    /\ spc' = "predict"
    /\ UNCHANGED <<sub_prompts, preds, submission>>
    /\ UNCHANGED runVars

\* One turn of the loop of lines 268-283, on the next row.
PredictRow ==
    /\ spc = "predict"
    /\ Len(preds) < Len(Val(test_df))
    /\ LET row == Val(test_df)[Len(preds) + 1]
           prompt == InferencePrompt(row)
       IN  /\ sub_prompts' = Append(sub_prompts, prompt)
           /\ \E completion \in Completions :
                 LET output == Generate(prompt, completion)
                     pred == Replace(output, prompt, "")
                 IN  preds' = Append(preds, [id |-> row.id, pred |-> pred])
    /\ UNCHANGED <<spc, test_df, submission>>
    /\ UNCHANGED runVars

\* Lines 287-290: sub_df is built, filled, mapped and written.
WriteSubmission ==
    /\ spc = "predict"
    /\ Len(preds) = Len(Val(test_df))
    /\ submission' = << [i \in 1..Len(preds) |-> SubmissionRow(preds[i])] >>
    /\ spc' = "written"
    /\ UNCHANGED <<test_df, sub_prompts, preds>>
    /\ UNCHANGED runVars

NextSubmission ==
    \/ ReadTestCsv
    \/ PredictRow
    \/ WriteSubmission

SpecSubmission == InitSubmission /\ [][NextSubmission]_vars

---------------------------------------------------------------------------
(* Properties.                                                             *)

NonNull(row) ==
    /\ row.original_text # NaN
    /\ row.rewritten_text # NaN
    /\ row.rewrite_prompt # NaN

\* The four section labels occur in the text one after another, in order.
LabelsInOrder(text) ==
    LET p1 == Find(text, "Instruction:", 1)
        p2 == IF p1 = 0 THEN 0 ELSE Find(text, "Original Text:", p1 + Len("Instruction:"))
        p3 == IF p2 = 0 THEN 0 ELSE Find(text, "Rewriten Text:", p2 + Len("Original Text:"))
        p4 == IF p3 = 0 THEN 0 ELSE Find(text, "Response:", p3 + Len("Rewriten Text:"))
    IN  p4 # 0

C2_EmptyResponseSection ==
    \A i \in 1..Len(sub_prompts) :
        /\ LabelsInOrder(sub_prompts[i])
        /\ EndsWith(sub_prompts[i], "\n\nResponse:\n")
        /\ Len(sub_prompts[i]) =
              Len(InstructionText) + Len("\n\nOriginal Text:\n")
              + Len(Val(test_df)[i].original_text[1]) + Len("\n\nRewriten Text:\n")
              + Len(Val(test_df)[i].rewritten_text[1]) + Len("\n\nResponse:\n")

\* Inference prompts were built for a row with a missing original_text and
\* for a row whose rewritten_text is itself "{rewrite_prompt}".
C2_Witness ==
    /\ Len(sub_prompts) = 2
    /\ Val(test_df)[1].original_text = Some("")
    /\ Val(test_df)[2].rewritten_text = Some("{rewrite_prompt}")

C4_DefaultSubstitution ==
    Bound(submission) =>
        /\ Len(Val(submission)) = Len(preds)
        /\ \A i \in 1..Len(preds) :
              /\ Val(submission)[i].id = preds[i].id
              /\ preds[i].pred = "" => Val(submission)[i].rewrite_prompt = "Improve the essay"
              /\ preds[i].pred # "" => Val(submission)[i].rewrite_prompt = preds[i].pred
              /\ Val(submission)[i].rewrite_prompt # ""

\* A submission was written from an empty and a non-empty prediction.
C4_Witness ==
    /\ Bound(submission)
    /\ \E i \in 1..Len(preds) : preds[i].pred = ""
    /\ \E i \in 1..Len(preds) : preds[i].pred = "Make it formal."

\* C5: the list handed to the model has one example per CSV row, in row
\* order, the i-th being the formatting of the i-th row; duplicates stay.
C5_OneExamplePerRowInOrder ==
    Bound(data) =>
        /\ Len(Val(data)) = Len(Val(df))
        /\ \A i \in 1..Len(Val(df)) :
              Val(data)[i] = Format(Val(df)[i].original_text, Val(df)[i].rewritten_text,
                                    Val(df)[i].rewrite_prompt)

\* The list was built from a file with a repeated row.
C5_Witness ==
    /\ Bound(data)
    /\ Len(Val(df)) = 2
    /\ Val(df)[1] = Val(df)[2]
    /\ Len(Val(data)) = 2

\* C6 as stated: every stage's effect is there only once the effects of the
\* stages listed before it are, in the order configuration, CSV, templating,
\* preprocessing, model load, LoRA, compile, fit, save; so the corpus is
\* tokenized before the pretrained model is loaded.
C6_ClaimedStageOrder ==
    /\ Bound(df) => Bound(CFG)
    /\ df_prompt # <<>> => Bound(df)
    /\ Bound(data) => Bound(df) /\ Len(df_prompt) = Len(Val(df))
    /\ x_seq_len # 0 => Bound(data)
    /\ loaded => x_seq_len # 0
    /\ lora_rank # 0 => loaded
    /\ compiled => lora_rank # 0
    /\ epochs_done > 0 => compiled
    /\ checkpoints # <<>> => epochs_done = Val(CFG).epochs

\* C6, amended: the stages run in the order configuration, CSV, templating,
\* model load, preprocessing, LoRA, compile, fit, save, each complete before
\* the next begins; the corpus is tokenized after the model is loaded.
C6_StageOrder ==
    /\ Bound(df) => Bound(CFG)
    /\ df_prompt # <<>> => Bound(df)
    /\ Bound(data) => Bound(df) /\ Len(df_prompt) = Len(Val(df))
    /\ loaded => Bound(data)
    /\ x_seq_len # 0 => loaded
    /\ lora_rank # 0 => x_seq_len # 0
    /\ compiled => lora_rank # 0
    /\ epochs_done > 0 => compiled
    /\ checkpoints # <<>> => epochs_done = Val(CFG).epochs

\* A run went through every stage, with rows to format and two epochs.
C6_Witness ==
    /\ pc = "done"
    /\ Len(Val(data)) = 2
    /\ loaded /\ x_seq_len # 0 /\ lora_rank # 0 /\ compiled
    /\ epochs_done = 2
    /\ checkpoints # <<>>

\* C7: the checkpoint is written at most once, only as the last statement
\* of the run, after fit has completed all configured epochs with LoRA
\* enabled; a run that reaches its end has written it exactly once.
C7_CheckpointOnceAtEnd ==
    /\ Len(checkpoints) <= 1
    /\ checkpoints # <<>> =>
          /\ pc = "done"
          /\ epochs_done = Val(CFG).epochs
          /\ lora_rank = LoraRank
    /\ pc = "done" => Len(checkpoints) = 1

\* A run with more than one epoch has ended and written its checkpoint.
C7_Witness ==
    /\ pc = "done"
    /\ epochs_done = 2
    /\ Len(checkpoints) = 1

\* os.path.basename(path)
BaseName(path) == SubSeq(path, RFind(path, "/") + 1, Len(path))

SameButFor(c, d, field) ==
    /\ c.dataset_path = d.dataset_path
    /\ field = "preset" \/ c.preset = d.preset
    /\ field = "input_file_name" \/ c.input_file_name = d.input_file_name
    /\ field = "epochs" \/ c.epochs = d.epochs

\* C8 as stated: the name of the saved checkpoint differs from the name any
\* configuration with another preset, input file name or epoch count gives.
C8_ClaimedNamesDistinct ==
    checkpoints # <<>> =>
        \A c \in Configs :
            (\/ c.preset # Val(CFG).preset
             \/ c.input_file_name # Val(CFG).input_file_name
             \/ c.epochs # Val(CFG).epochs)
            => CheckpointName(c) # BaseName(checkpoints[1])

\* C8, amended: the saved path is dataset_path joined with "finetune_", the
\* preset, "_", the input file name without its extension, "_epoch", the
\* epoch count and ".keras"; a configuration that differs from the run's in
\* exactly one of preset, extension-less input file name and epoch count
\* gives another name.
C8_CheckpointName ==
    checkpoints # <<>> =>
        LET cfg == Val(CFG)
            stem == SplitExtRoot(cfg.input_file_name)
        IN  /\ checkpoints[1] = cfg.dataset_path \o "/finetune_" \o cfg.preset \o "_"
                                 \o stem \o "_epoch" \o IntToStr(cfg.epochs) \o ".keras"
            /\ stem \o ".csv" = cfg.input_file_name \/ stem \o ".tsv" = cfg.input_file_name
            /\ \A c \in Configs :
                  (\/ SameButFor(c, cfg, "preset") /\ c.preset # cfg.preset
                   \/ SameButFor(c, cfg, "epochs") /\ c.epochs # cfg.epochs
                   \/ /\ SameButFor(c, cfg, "input_file_name")
                      /\ SplitExtRoot(c.input_file_name) # stem)
                  => CheckpointName(c) # BaseName(checkpoints[1])

\* A checkpoint was saved for an input file whose name has an underscore, in
\* a run of two epochs.
C8_Witness ==
    /\ checkpoints # <<>>
    /\ Val(CFG).input_file_name = "en_train.csv"
    /\ Val(CFG).epochs = 2
    /\ BaseName(checkpoints[1]) = "finetune_gemma_2b_en_train_epoch2.keras"

\* C9: once a stage before the save has raised, the process is over: no
\* statement runs any more, the failed one included, and no checkpoint has
\* been or will be written.
C9_FailureTerminates ==
    /\ [](error # "" => pc = "failed" /\ checkpoints = <<>>)
    /\ [][error # "" => UNCHANGED vars]_vars

\* fit raised after its first epoch.
C9_Witness ==
    /\ pc = "failed"
    /\ error = "fit"
    /\ epochs_done = 1
    /\ checkpoints = <<>>

\* C10 as stated: the corpus tokenization of line 100 and every batch of fit
\* use the configured sequence length.
C10_ClaimedLimitEverywhere ==
    /\ x_seq_len # 0 => x_seq_len = Val(CFG).sequence_length
    /\ \A n \in fit_seq_lens : n = Val(CFG).sequence_length

\* C10, amended: the preprocessor's sequence length equals the configured
\* one from before compile until fit has finished, so every batch fit
\* tokenizes uses it; the corpus tokenization of line 100 runs earlier, with
\* the sequence length the preset came with.
C10_LimitInForceForFit ==
    /\ compiled => seq_len = Val(CFG).sequence_length
    /\ \A n \in fit_seq_lens : n = Val(CFG).sequence_length
    /\ x_seq_len # 0 => x_seq_len \in PresetSequenceLengths
    /\ x_seq_len # 0 /\ lora_rank = 0 => x_seq_len = seq_len

\* fit has run with the configured length after the corpus was tokenized
\* with another one.
C10_Witness ==
    /\ pc = "done"
    /\ x_seq_len # Val(CFG).sequence_length
    /\ fit_seq_lens = {Val(CFG).sequence_length}

=============================================================================
